---- MODULE Spec2Model ----
(***************************************************************************)
(* A model of the trader-AI backend: the trading-day scheduler            *)
(* (analysis/trading_day_scheduler.py), the scheduler start/stop routes   *)
(* and the error handling of the /api routes (backend/app.py), the        *)
(* analysis service (backend/services/stock_analysis_service.py), the     *)
(* recommendation table (WebAppManager.save_recommendations) and the      *)
(* condition screener (stock_screener/screener.py).                       *)
(*                                                                         *)
(* Each subsystem has its own next-state relation and specification over  *)
(* the one Init; a subsystem leaves the variables of the others unchanged.*)
(***************************************************************************)
EXTENDS Integers, Sequences, FiniteSets, TLC

VARIABLES
    \* ---- TradingDayScheduler (one instance) and its callers
    clock,              \* datetime.now(): [date, tod], tod in seconds of the day
    report_sent_today,  \* self.report_sent_today
    last_report_date,   \* self.last_report_date (NoDate is None)
    execution_lock,     \* self.execution_lock: 0 is free, else the holding thread
    pc,                 \* per thread: where it stands in the call it makes
    cur,                \* per thread: the call it makes (slot, date of the send)
    nextJob,            \* the first job of setup_schedule not yet run on clock.date
    lastJob,            \* the last job that returned: its slot, date and whether it sent
    lastSkip,           \* the date of the last call that should_send_report turned away
    lastInvoke,         \* the clock at the last send_daily_report invocation
    succ,               \* per date: successful sends invoked on it (capped at 2)
    invokedAfter,       \* dates on which a send was invoked after a success
    \* ---- backend/app.py: the scheduler routes and the instances they create
    scheduler_instance, \* the global: 0 is None, else the instance
    created,            \* the number of TradingDayScheduler instances constructed
    is_running,         \* per instance: self.is_running
    thread,             \* per instance: its loop thread (none, started, looping, exited)
    registered,         \* the instances whose jobs the global schedule holds
    lastStart,          \* the last answer of POST /api/start_scheduler
    \* ---- backend/app.py: the /api routes and what they answer when they raise
    lastResponse,       \* the last answer: the handler, what it raised, the body
    \* ---- StockAnalysisService.run_analysis
    runIn,              \* the arguments and the environment of the last call
    runOut,             \* what the call did: status updates, on_finish and save calls
    \* ---- WebAppManager.save_recommendations and the stock_recommendations table
    rows,               \* the committed rows of stock_recommendations
    nextId,             \* the next AUTOINCREMENT id
    lastSave,           \* the last call: its arguments, the rows before it, its end
    \* ---- StockScreener.screen
    stock_list,         \* the stock_list argument of the last call
    conditions,         \* the conditions argument of the last call
    last_results,       \* self.last_results, which the call also returns
    screened,           \* whether screen has been called
    \* ---- POST /api/save_strategy_config
    system_config,      \* the strategy_* rows of the system_config table
    lastCfg,            \* the last save_strategy_config request: whether it was in range, its answer
    \* ---- WatchlistManager
    watchlist_groups,   \* the rows of watchlist_groups
    watchlist_stocks,   \* the rows of watchlist_stocks
    lastWl,             \* the last call: add_stock with its result, or another one
    \* ---- StockAnalysisEngine.analyze
    active_rule_ids,    \* _analysis_engine._active_rule_ids (given = FALSE is None)
    analyzing,          \* per request: where it stands in analyze, whether it passed rule_ids
    lastReport,         \* the report of the last analyze call that returned
    \* ---- OptimizedStockAnalyzer.generate_optimized_recommendations
    opt,                \* generate_optimized_recommendations: position, config, use_deep_analysis, analysis_count
    recommendations,    \* the local list recommendations
    final_recommendations, \* the list the call returns
    \* ---- DeepStockAnalyzer.calculate_comprehensive_scores
    scoring,            \* calculate_comprehensive_scores: position and the three local scores
    deepScores,         \* the dict the last call returned
    \* ---- DailyReportGenerator.analyze_single_stock
    analysis,           \* analyze_single_stock: position, tech_score, auction_score
    stockResult         \* what the call returned (none = TRUE is None)

schedVars == <<clock, report_sent_today, last_report_date, execution_lock, pc,
               cur, nextJob, lastJob, lastSkip, lastInvoke, succ, invokedAfter>>
appVars == <<scheduler_instance, created, is_running, thread, registered, lastStart>>
apiVars == <<lastResponse>>

runVars == <<runIn, runOut>>

dbVars == <<rows, nextId, lastSave>>

screenVars == <<stock_list, conditions, last_results, screened>>

cfgVars == <<system_config, lastCfg>>

wlVars == <<watchlist_groups, watchlist_stocks, lastWl>>

engineVars == <<active_rule_ids, analyzing, lastReport>>

optVars == <<opt, recommendations, final_recommendations>>

deepVars == <<scoring, deepScores>>

reportVars == <<analysis, stockResult>>

vars == <<schedVars, appVars, apiVars, runVars, dbVars, screenVars, cfgVars,
    wlVars, engineVars, optVars, deepVars, reportVars>>
NotSched == <<appVars, apiVars, runVars, dbVars, screenVars, cfgVars,
    wlVars, engineVars, optVars, deepVars, reportVars>>
NotApp == <<schedVars, apiVars, runVars, dbVars, screenVars, cfgVars,
    wlVars, engineVars, optVars, deepVars, reportVars>>
NotApi == <<schedVars, appVars, runVars, dbVars, screenVars, cfgVars,
    wlVars, engineVars, optVars, deepVars, reportVars>>
NotRun == <<schedVars, appVars, apiVars, dbVars, screenVars, cfgVars,
    wlVars, engineVars, optVars, deepVars, reportVars>>
NotDb == <<schedVars, appVars, apiVars, runVars, screenVars, cfgVars,
    wlVars, engineVars, optVars, deepVars, reportVars>>
NotScreen == <<schedVars, appVars, apiVars, runVars, dbVars, cfgVars,
    wlVars, engineVars, optVars, deepVars, reportVars>>
NotCfg == <<schedVars, appVars, apiVars, runVars, dbVars, screenVars,
    wlVars, engineVars, optVars, deepVars, reportVars>>
NotWl == <<schedVars, appVars, apiVars, runVars, dbVars, screenVars,
    cfgVars, engineVars, optVars, deepVars, reportVars>>
NotEngine == <<schedVars, appVars, apiVars, runVars, dbVars, screenVars,
    cfgVars, wlVars, optVars, deepVars, reportVars>>
NotOpt == <<schedVars, appVars, apiVars, runVars, dbVars, screenVars,
    cfgVars, wlVars, engineVars, deepVars, reportVars>>
NotDeep == <<schedVars, appVars, apiVars, runVars, dbVars, screenVars,
    cfgVars, wlVars, engineVars, optVars, reportVars>>
NotReport == <<schedVars, appVars, apiVars, runVars, dbVars, screenVars,
    cfgVars, wlVars, engineVars, optVars, deepVars>>

-----------------------------------------------------------------------------
(* Bounds of the scheduler model *)
MaxDay == 2
NumThreads == 2
FirstWeekday == 3      \* date 0 is a Thursday: the dates cover Thu, Fri, Sat

(* Program constants of the scheduler, in seconds of the day *)
WindowStart == 33900   \* "09:25"
WindowEnd == 34140     \* "09:29"
Slot0926 == 33960
Slot0927 == 34020
Slot0928 == 34080
Slot0930 == 34200
Slot1505 == 54300
NoDate == -1           \* last_report_date = None

Dates == 0..MaxDay
Threads == 1..NumThreads

\* The instants at which the model samples the clock, in increasing order.
TimesOfDay == <<WindowStart - 1, WindowStart, WindowEnd, Slot0930, Slot1505>>

Weekday(d) == (d + FirstWeekday) % 7

\* DailyReportGenerator.is_trading_day: weekday >= 5 is the weekend
is_trading_day(d) == ~(Weekday(d) >= 5)

is_trading_time_late(now) ==
    /\ is_trading_day(now.date)
    /\ WindowStart <= now.tod /\ now.tod <= Slot0930

\* TradingDayScheduler.is_trading_time
is_trading_time(now) ==
    IF ~is_trading_day(now.date) THEN FALSE
    ELSE WindowStart <= now.tod /\ now.tod <= WindowEnd

should_send_report_always(sent, last, today) ==
    [result |-> TRUE, sent |-> sent, last |-> last]

\* TradingDayScheduler.should_send_report: the result and the fields it leaves
should_send_report(sent, last, today) ==
    IF sent /\ last = today
    THEN [result |-> FALSE, sent |-> sent, last |-> last]
    ELSE IF last # today
         THEN [result |-> TRUE, sent |-> FALSE, last |-> today]
         ELSE [result |-> TRUE, sent |-> sent, last |-> last]

\* TradingDayScheduler.setup_schedule: the jobs, each a time of day and an operation
Jobs == <<[at |-> WindowStart, op |-> "daily"],
          [at |-> Slot0926,    op |-> "daily"],
          [at |-> Slot0927,    op |-> "daily"],
          [at |-> Slot0928,    op |-> "daily"],
          [at |-> Slot0930,    op |-> "daily"],
          [at |-> Slot1505,    op |-> "fallback"]>>

NoCall == [slot |-> 0, date |-> NoDate]
NoJob == [slot |-> 0, date |-> NoDate, invoked |-> FALSE]
NoClock == [date |-> NoDate, tod |-> 0]

InitSched ==
    /\ clock = [date |-> 0, tod |-> TimesOfDay[1]]
    /\ report_sent_today = FALSE
    /\ last_report_date = NoDate
    /\ execution_lock = 0
    /\ pc = [t \in Threads |-> "idle"]
    /\ cur = [t \in Threads |-> NoCall]
    /\ nextJob = 1
    /\ lastJob = NoJob
    /\ lastSkip = NoDate
    /\ lastInvoke = NoClock
    /\ succ = [d \in Dates |-> 0]
    /\ invokedAfter = {}

-----------------------------------------------------------------------------
(* The clock: it moves to the next sampled instant, or to the next date.   *)
(* schedule's jobs run once a day each, in the order of their times: a new  *)
(* date makes them all due again.                                           *)

TodIndex(tod) == CHOOSE i \in 1..Len(TimesOfDay) : TimesOfDay[i] = tod

Tick ==
    /\ LET i == TodIndex(clock.tod) IN
         IF i < Len(TimesOfDay)
         THEN /\ clock' = [clock EXCEPT !.tod = TimesOfDay[i + 1]]
              /\ UNCHANGED nextJob
         ELSE /\ clock.date < MaxDay
              /\ clock' = [date |-> clock.date + 1, tod |-> TimesOfDay[1]]
              /\ nextJob' = 1
    /\ UNCHANGED <<report_sent_today, last_report_date, execution_lock, pc, cur,
                   lastJob, lastSkip, lastInvoke, succ, invokedAfter>>
    /\ UNCHANGED NotSched

\* The first program point of an operation
EntryPoint(op) == IF op = "daily" THEN "acquire" ELSE "fb1"

\* The call of thread t returns
Return(t, invoked) ==
    /\ pc' = [pc EXCEPT ![t] = "idle"]
    /\ cur' = [cur EXCEPT ![t] = NoCall]
    /\ lastJob' = IF cur[t].slot # 0
                  THEN [slot |-> cur[t].slot, date |-> clock.date, invoked |-> invoked]
                  ELSE lastJob

\* start_scheduler's loop, schedule.run_pending(): the loop thread (thread 1) runs
\* the next job of the day once its time of day has come. Slot 0 is no job.
RunJob(t) ==
    /\ t = 1
    /\ pc[t] = "idle"
    /\ nextJob <= Len(Jobs)
    /\ clock.tod >= Jobs[nextJob].at
    /\ nextJob' = nextJob + 1
    /\ pc' = [pc EXCEPT ![t] = EntryPoint(Jobs[nextJob].op)]
    /\ cur' = [cur EXCEPT ![t] = [slot |-> nextJob, date |-> NoDate]]
    /\ UNCHANGED <<clock, report_sent_today, last_report_date, execution_lock,
                   lastJob, lastSkip, lastInvoke, succ, invokedAfter>>
    /\ UNCHANGED NotSched

\* A caller other than the loop thread calls one of the two operations
CallDirect(t, op) ==
    /\ t # 1
    /\ pc[t] = "idle"
    /\ pc' = [pc EXCEPT ![t] = EntryPoint(op)]
    /\ cur' = [cur EXCEPT ![t] = NoCall]
    /\ UNCHANGED <<clock, report_sent_today, last_report_date, execution_lock,
                   nextJob, lastJob, lastSkip, lastInvoke, succ, invokedAfter>>
    /\ UNCHANGED NotSched

\* execute_fallback_report, line 132, left operand: not self.report_sent_today
FallbackRead1(t) ==
    /\ pc[t] = "fb1"
    /\ pc' = [pc EXCEPT ![t] = IF ~report_sent_today THEN "acquire" ELSE "fb2"]
    /\ UNCHANGED <<clock, report_sent_today, last_report_date, execution_lock, cur,
                   nextJob, lastJob, lastSkip, lastInvoke, succ, invokedAfter>>
    /\ UNCHANGED NotSched

\* execute_fallback_report, line 132, right operand: self.last_report_date != today
FallbackRead2(t) ==
    /\ pc[t] = "fb2"
    /\ IF last_report_date # clock.date
       THEN /\ pc' = [pc EXCEPT ![t] = "acquire"]
            /\ UNCHANGED <<cur, lastJob>>
       ELSE Return(t, FALSE)
    /\ UNCHANGED <<clock, report_sent_today, last_report_date, execution_lock,
                   nextJob, lastSkip, lastInvoke, succ, invokedAfter>>
    /\ UNCHANGED NotSched

\* execute_daily_analysis, lines 76-95: take the lock, check the time window and
\* should_send_report, and either return or invoke send_daily_report.
Enter(t) ==
    /\ pc[t] = "acquire"
    /\ execution_lock = 0
    /\ IF ~is_trading_time(clock)
       THEN /\ Return(t, FALSE)
            /\ UNCHANGED <<report_sent_today, last_report_date, execution_lock,
                           lastSkip, lastInvoke, invokedAfter>>
       ELSE LET r == should_send_report(report_sent_today, last_report_date,
                                        clock.date) IN
            /\ report_sent_today' = r.sent
            /\ last_report_date' = r.last
            /\ IF ~r.result
               THEN /\ Return(t, FALSE)
                    /\ lastSkip' = clock.date
                    /\ UNCHANGED <<execution_lock, lastInvoke, invokedAfter>>
               ELSE /\ execution_lock' = t
                    /\ pc' = [pc EXCEPT ![t] = "sending"]
                    /\ cur' = [cur EXCEPT ![t].date = clock.date]
                    /\ lastInvoke' = clock
                    /\ invokedAfter' = IF succ[clock.date] > 0
                                       THEN invokedAfter \cup {clock.date}
                                       ELSE invokedAfter
                    /\ UNCHANGED <<lastJob, lastSkip>>
    /\ UNCHANGED <<clock, nextJob, succ>>
    /\ UNCHANGED NotSched

SendOutcomes == {"success", "failure", "raise"}

\* execute_daily_analysis, lines 95-105: send_daily_report returns True or False,
\* or raises; the lock is released on the way out.
SendReturn(t, outcome) ==
    /\ pc[t] = "sending"
    /\ execution_lock = t
    /\ IF outcome = "success"
       THEN /\ report_sent_today' = TRUE
            /\ last_report_date' = cur[t].date
            /\ succ' = [succ EXCEPT ![cur[t].date] = IF @ < 2 THEN @ + 1 ELSE @]
       ELSE UNCHANGED <<report_sent_today, last_report_date, succ>>
    /\ execution_lock' = 0
    /\ Return(t, TRUE)
    /\ UNCHANGED <<clock, nextJob, lastSkip, lastInvoke, invokedAfter>>
    /\ UNCHANGED NotSched

NextSched ==
    \/ Tick
    \/ \E t \in Threads : RunJob(t)
    \/ \E t \in Threads : \E op \in {"daily", "fallback"} : CallDirect(t, op)
    \/ \E t \in Threads : FallbackRead1(t)
    \/ \E t \in Threads : FallbackRead2(t)
    \/ \E t \in Threads : Enter(t)
    \/ \E t \in Threads : \E o \in SendOutcomes : SendReturn(t, o)

-----------------------------------------------------------------------------
(* Claims about the scheduler *)

BackupSlots == {j \in 1..Len(Jobs) : Jobs[j].at \in {Slot0930, Slot1505}}

\* C5 (as claimed): on a trading day on which no report has been sent, the job of
\* the 09:30 slot and the job of the 15:05 slot each invoke send_daily_report:
\* when such a job has returned and the day still has no sent report, it has
\* invoked the send.
C5_BackupSlotsSend ==
    (/\ lastJob.slot \in BackupSlots
     /\ is_trading_day(lastJob.date)
     /\ succ[lastJob.date] = 0)
    => lastJob.invoked

\* C6: send_daily_report succeeds at most once per date, and after a success no
\* later call on that date invokes it again.
C6_OneReportPerDate ==
    \A d \in Dates : succ[d] <= 1 /\ d \notin invokedAfter

\* C6 witness: after a successful send on a date, a later call on that date, inside
\* the time window, was turned away by should_send_report.
C6_Witness ==
    /\ lastSkip # NoDate
    /\ succ[lastSkip] = 1

\* C7: execute_daily_analysis invokes send_daily_report only on a Monday to Friday
\* and at a time of day from 09:25:00 to 09:29:00 inclusive.
C7_SendOnlyInWindow ==
    lastInvoke # NoClock =>
        /\ Weekday(lastInvoke.date) \in 0..4
        /\ lastInvoke.tod >= 9 * 3600 + 25 * 60
        /\ lastInvoke.tod <= 9 * 3600 + 29 * 60

\* C7 witness: a send invoked at 09:29:00, the last instant of the window.
C7_Witness ==
    /\ lastInvoke # NoClock
    /\ lastInvoke.tod = 9 * 3600 + 29 * 60

-----------------------------------------------------------------------------
(* backend/app.py: POST /api/start_scheduler and POST /api/stop_scheduler,  *)
(* and the loop thread each start creates (TradingDayScheduler.start_scheduler). *)

MaxInstances == 3

Instances == 1..MaxInstances
NoInstance == 0

InitApp ==
    /\ scheduler_instance = NoInstance
    /\ created = 0
    /\ is_running = [i \in Instances |-> FALSE]
    /\ thread = [i \in Instances |-> "none"]
    /\ registered = {}
    /\ lastStart = [accepted |-> FALSE, runningBefore |-> FALSE]

\* An instance whose loop thread is in its while loop with is_running set
RunningLoops == {i \in Instances : is_running[i] /\ thread[i] = "looping"}

\* start_scheduler (the route), line 848: the request is turned away
StartRejected == scheduler_instance # NoInstance /\ is_running[scheduler_instance]

\* POST /api/start_scheduler
StartRequest ==
    /\ IF StartRejected
       THEN /\ lastStart' = [accepted |-> FALSE, runningBefore |-> RunningLoops # {}]
            /\ UNCHANGED <<scheduler_instance, created, thread>>
       ELSE /\ created < MaxInstances
            /\ created' = created + 1
            /\ scheduler_instance' = created + 1
            /\ thread' = [thread EXCEPT ![created + 1] = "started"]
            /\ lastStart' = [accepted |-> TRUE, runningBefore |-> RunningLoops # {}]
    /\ UNCHANGED <<is_running, registered>>
    /\ UNCHANGED NotApp

\* POST /api/stop_scheduler: TradingDayScheduler.stop_scheduler on the global
\* instance (is_running = False, schedule.clear()), then the global is None.
StopRequest ==
    /\ IF scheduler_instance # NoInstance
       THEN /\ is_running' = [is_running EXCEPT ![scheduler_instance] = FALSE]
            /\ registered' = {}
            /\ scheduler_instance' = NoInstance
       ELSE UNCHANGED <<is_running, registered, scheduler_instance>>
    /\ UNCHANGED <<created, thread, lastStart>>
    /\ UNCHANGED NotApp

\* TradingDayScheduler.start_scheduler, lines 143-151, on the new thread
ThreadBegin(i) ==
    /\ thread[i] = "started"
    /\ IF is_running[i]
       THEN /\ thread' = [thread EXCEPT ![i] = "exited"]
            /\ UNCHANGED <<is_running, registered>>
       ELSE /\ is_running' = [is_running EXCEPT ![i] = TRUE]
            /\ registered' = registered \cup {i}
            /\ thread' = [thread EXCEPT ![i] = "looping"]
    /\ UNCHANGED <<scheduler_instance, created, lastStart>>
    /\ UNCHANGED NotApp

\* TradingDayScheduler.start_scheduler, lines 154-163: the loop sees is_running
\* False after its sleep, leaves, and the finally clause calls stop_scheduler.
LoopExit(i) ==
    /\ thread[i] = "looping"
    /\ ~is_running[i]
    /\ thread' = [thread EXCEPT ![i] = "exited"]
    /\ registered' = {}
    /\ UNCHANGED <<scheduler_instance, created, is_running, lastStart>>
    /\ UNCHANGED NotApp

NextApp ==
    \/ StartRequest
    \/ StopRequest
    \/ \E i \in Instances : ThreadBegin(i)
    \/ \E i \in Instances : LoopExit(i)

\* C8 (as claimed): at most one TradingDayScheduler with is_running = true has a
\* live loop thread, whatever the start and stop requests were.
C8_AtMostOneRunningLoop == Cardinality(RunningLoops) <= 1

-----------------------------------------------------------------------------
(* backend/app.py: the /api routes, each by what it does with an exception  *)
(* raised while it serves a request.                                        *)

\* The whole body is in try ... except Exception, which answers
\* jsonify({'success': False, 'message': ...})
WrappedHandlers ==
    {"save_email_config", "test_email", "save_strategy_config",
     "get_strategy_config", "start_scheduler", "stop_scheduler", "run_analysis",
     "update_stock_status", "api_analyzer_analyze", "api_screener_run",
     "api_daily_status", "api_daily_recommendations", "api_daily_run_analysis",
     "api_daily_update_status"}

\* As above, with a 'data': [] entry beside success and message
WrappedWithDataHandlers == {"api_get_picks"}

\* except Exception answers jsonify({'error': str(e)})
ErrorKeyHandlers == {"system_status"}

\* except Exception answers jsonify({"html": ..., "prices": []})
HtmlHandlers == {"get_stock_analysis_detail"}

\* No try at all: the exception leaves the view function
UnguardedHandlers ==
    {"api_models_list", "api_models_add", "api_models_update",
     "api_models_delete", "api_models_set_default", "api_models_test",
     "api_models_callers", "api_models_set_caller", "api_analyzer_rules",
     "api_screener_presets", "api_screener_records",
     "api_screener_record_detail", "api_screener_record_delete",
     "api_watchlist_groups", "api_watchlist_add_group",
     "api_watchlist_rename_group", "api_watchlist_delete_group",
     "api_watchlist_stocks", "api_watchlist_add_stock",
     "api_watchlist_remove_stock"}

ApiHandlers ==
    WrappedHandlers \cup WrappedWithDataHandlers \cup ErrorKeyHandlers
        \cup HtmlHandlers \cup UnguardedHandlers

NoExc == "none"
ExcTexts == {"database is locked", "'list' object has no attribute 'get'"}

\* What a handler answers when its body raises an exception with text e
OnException(h, e) ==
    IF h \in WrappedHandlers
    THEN [kind |-> "json", keys |-> {"success", "message"}, success |-> "false", text |-> e]
    ELSE IF h \in WrappedWithDataHandlers
    THEN [kind |-> "json", keys |-> {"success", "message", "data"}, success |-> "false", text |-> e]
    ELSE IF h \in ErrorKeyHandlers
    THEN [kind |-> "json", keys |-> {"error"}, success |-> "absent", text |-> e]
    ELSE IF h \in HtmlHandlers
    THEN [kind |-> "json", keys |-> {"html", "prices"}, success |-> "absent", text |-> e]
    ELSE [kind |-> "propagated", keys |-> {}, success |-> "absent", text |-> e]

NormalBody == [kind |-> "json", keys |-> {}, success |-> "n/a", text |-> NoExc]

InitApi ==
    lastResponse = [handler |-> "none", raised |-> FALSE, body |-> NormalBody]

\* One request served by handler h; exc is what its body raises, if anything
Serve(h, exc) ==
    /\ lastResponse' = [handler |-> h, raised |-> exc # NoExc,
                        body |-> IF exc = NoExc THEN NormalBody
                                 ELSE OnException(h, exc)]
    /\ UNCHANGED NotApi

NextApi == \E h \in ApiHandlers : \E exc \in ExcTexts \cup {NoExc} : Serve(h, exc)

\* C1 (as claimed): every /api handler that raises while serving a request answers
\* a JSON body {success: false, message: <text>}; none lets the exception
\* propagate or answers in another shape.
C1_ErrorsBecomeSuccessFalse ==
    lastResponse.raised =>
        /\ lastResponse.body.kind = "json"
        /\ lastResponse.body.success = "false"
        /\ "message" \in lastResponse.body.keys

-----------------------------------------------------------------------------
(* backend/services/stock_analysis_service.py: StockAnalysisService.run_analysis *)
(* and the analyzer it calls, OptimizedStockAnalyzer.generate_optimized_recommendations *)

MaxRecs == 2
PoolSize == 2

Symbols == {"sh.600000", "sz.000001"}
ReportDates == {"2026-01-05", "2026-01-06"}

RECURSIVE SeqsUpTo(_, _)
\* The sequences over S of length at most n
SeqsUpTo(S, n) ==
    IF n = 0 THEN {<<>>}
    ELSE LET shorter == SeqsUpTo(S, n - 1) IN
         shorter \cup {Append(q, x) : q \in {r \in shorter : Len(r) = n - 1}, x \in S}

\* The keyword parameters of generate_optimized_recommendations (besides self)
GenerateParams == {"progress_callback"}

\* The keyword arguments run_analysis passes to it, lines 64-67
RunAnalysisKwargs == {"progress_callback", "is_cancelled"}

NoReport == [cancelled |-> FALSE, recs |-> <<>>, date |-> ""]

Progress(phase) == [status |-> "-", message |-> phase, count |-> -1]

\* generate_optimized_recommendations: it reports its progress and returns {} or a
\* report with the recommendations and the date; it has no cancelled result.
\* raises: its analysis raises; body: the recommendations it finds otherwise.
GenerateOptimizedRecommendations(raises, body, date) ==
    IF raises
    THEN [exc |-> "analysis error", progress |-> <<Progress("init")>>,
          report |-> NoReport]
    ELSE [exc |-> NoExc,
          progress |-> <<Progress("init")>>
                       \o [i \in 1..PoolSize |-> Progress("analyzing")]
                       \o <<Progress("sorting")>>,
          report |-> IF body = <<>> THEN NoReport
                     ELSE [cancelled |-> FALSE, recs |-> body, date |-> date]]

\* The call of lines 64-67: Python binds the keyword arguments to the parameters
\* first, and raises TypeError for a keyword the function does not have.
CallAnalyzer(in) ==
    IF ~(RunAnalysisKwargs \subseteq GenerateParams)
    THEN [exc |-> "TypeError: unexpected keyword argument", progress |-> <<>>,
          report |-> NoReport]
    ELSE GenerateOptimizedRecommendations(in.raises, in.body, in.date)

Finish(in, status, count, error) ==
    IF in.on_finish THEN <<[status |-> status, count |-> count, error |-> error]>>
    ELSE <<>>

ExceptHandler_reraise(in, e) ==
    [updates |-> <<>>, finishes |-> <<>>, propagated |-> TRUE]

\* run_analysis, lines 94-99: except Exception
ExceptHandler(in, e) ==
    [updates |-> <<[status |-> "failed", message |-> e, count |-> -1]>>,
     finishes |-> Finish(in, "failed", -1, e),
     propagated |-> FALSE]

\* run_analysis, lines 51-99: everything the call does
RunAnalysisResult(in) ==
    LET r == CallAnalyzer(in)
        start == [updates |-> <<[status |-> "running", message |-> "", count |-> -1]>>
                              \o r.progress,
                  finishes |-> Finish(in, "running", -1, NoExc)]
        Ends(saves, exc, tail) ==
            [updates |-> start.updates \o tail.updates,
             finishes |-> start.finishes \o tail.finishes,
             saves |-> saves, exc |-> exc, propagated |-> tail.propagated]
    IN
    IF r.exc # NoExc
    THEN Ends(<<>>, r.exc, ExceptHandler(in, r.exc))
    ELSE IF r.report.cancelled
    THEN Ends(<<>>, NoExc,
              [updates |-> <<[status |-> "cancelled", message |-> "stopped", count |-> -1]>>,
               finishes |-> Finish(in, "cancelled", Len(r.report.recs), NoExc),
               propagated |-> FALSE])
    ELSE IF r.report.recs # <<>>
    THEN LET save == [recs |-> r.report.recs, date |-> r.report.date] IN
         IF in.saveRaises
         THEN Ends(<<save>>, "save error", ExceptHandler(in, "save error"))
         ELSE Ends(<<save>>, NoExc,
                   [updates |-> <<[status |-> "completed", message |-> "done",
                                   count |-> Len(r.report.recs)]>>,
                    finishes |-> Finish(in, "completed", Len(r.report.recs), NoExc),
                    propagated |-> FALSE])
    ELSE Ends(<<>>, NoExc,
              [updates |-> <<[status |-> "completed", message |-> "none", count |-> 0]>>,
               finishes |-> Finish(in, "completed", 0, NoExc),
               propagated |-> FALSE])

NoRun == [on_finish |-> FALSE, is_cancelled |-> "none", raises |-> FALSE,
          body |-> <<>>, date |-> "",
          saveRaises |-> FALSE, called |-> FALSE]

InitRun ==
    /\ runIn = NoRun
    /\ runOut = [updates |-> <<>>, finishes |-> <<>>, saves |-> <<>>, exc |-> NoExc,
                 propagated |-> FALSE]

\* One call of run_analysis. is_cancelled is None ("none") or a callback that
\* answers False or True while the analysis runs.
RunAnalysis(onFinish, cancel, raises, body, date, saveRaises) ==
    LET in == [on_finish |-> onFinish, is_cancelled |-> cancel,
               raises |-> raises, body |-> body,
               date |-> date, saveRaises |-> saveRaises, called |-> TRUE] IN
    /\ runIn' = in
    /\ runOut' = RunAnalysisResult(in)
    /\ UNCHANGED NotRun

NextRun ==
    \E onFinish \in BOOLEAN, cancel \in {"none", "false", "true"},
       raises \in BOOLEAN, body \in SeqsUpTo(Symbols, MaxRecs),
       date \in ReportDates, saveRaises \in BOOLEAN :
        RunAnalysis(onFinish, cancel, raises, body, date, saveRaises)

\* The updates of a call that carry a status
StatusUpdates == SelectSeq(runOut.updates, LAMBDA u : u.status # "-")
LastStatus == StatusUpdates[Len(StatusUpdates)]
LastFinish == runOut.finishes[Len(runOut.finishes)]

\* C2 (as claimed): when is_cancelled answers True while the analysis runs, the
\* last status update is status='cancelled' and on_finish is called with 'cancelled'.
C2_CancelEndsCancelled ==
    (runIn.called /\ runIn.is_cancelled = "true") =>
        /\ LastStatus.status = "cancelled"
        /\ runIn.on_finish => LastFinish.status = "cancelled"

\* C3 (as claimed): when the analyzer yields a non-empty recommendation list and
\* the run is not cancelled, save_recommendations_fn is called exactly once with
\* the list and its date, and the final status is 'completed' with the list's length.
C3_NonEmptySavedAndCompleted ==
    (/\ runIn.called
     /\ ~runIn.raises /\ runIn.body # <<>>
     /\ runIn.is_cancelled # "true"
     /\ ~runIn.saveRaises) =>
        /\ runOut.saves = <<[recs |-> runIn.body, date |-> runIn.date]>>
        /\ LastStatus.status = "completed"
        /\ LastStatus.count = Len(runIn.body)

\* C4: an exception raised inside run_analysis by the analyzer call or by
\* save_recommendations_fn does not leave run_analysis: the last status update is
\* status='failed' with the exception's text, and on_finish, when given, is last
\* called with 'failed'.
C4_ExceptionEndsFailed ==
    (runIn.called /\ runOut.exc # NoExc) =>
        /\ ~runOut.propagated
        /\ StatusUpdates # <<>>
        /\ LastStatus.status = "failed"
        /\ LastStatus.message = runOut.exc
        /\ runIn.on_finish =>
              /\ runOut.finishes # <<>>
              /\ LastFinish.status = "failed"
              /\ LastFinish.error = runOut.exc

\* C4 witness: a call with on_finish in which the analyzer call raised
C4_Witness ==
    /\ runIn.called
    /\ runIn.on_finish
    /\ runOut.exc # NoExc
    /\ Len(runOut.finishes) = 2

-----------------------------------------------------------------------------
(* backend/app.py: WebAppManager.save_recommendations on the table          *)
(* stock_recommendations (id INTEGER PRIMARY KEY AUTOINCREMENT, date TEXT   *)
(* NOT NULL, symbol TEXT NOT NULL, ..., total_score REAL, ...).             *)

MaxId == 4
MaxSaveLen == 2

NoSymbol == "None"     \* stock.get('symbol') of a dict without the key

\* The recommendation dicts the model saves: symbol and total_score stand for the
\* fifteen columns, and the last one has no symbol.
RecUniverse ==
    {[symbol |-> "sh.600000", total_score |-> 85],
     [symbol |-> "sz.000001", total_score |-> 70],
     [symbol |-> NoSymbol, total_score |-> 70]}

DeleteWhereDate_none(table, d) == table

\* DELETE FROM stock_recommendations WHERE date = ?
DeleteWhereDate(table, d) == {r \in table : r.date # d}

\* The INSERT of line 124 for the i-th stock: the row takes the date argument
InsertedRow(recs, d, i, firstId) ==
    [id |-> firstId + i - 1, date |-> d, symbol |-> recs[i].symbol,
     total_score |-> recs[i].total_score]

\* symbol TEXT NOT NULL: the INSERT of a stock without a symbol raises
\* sqlite3.IntegrityError, and the call ends before conn.commit()
InsertsSucceed(recs) == \A i \in 1..Len(recs) : recs[i].symbol # NoSymbol

InitDb ==
    /\ rows = {}
    /\ nextId = 1
    /\ lastSave = [called |-> FALSE, completed |-> FALSE, recs |-> <<>>, date |-> "",
                   before |-> {}]

\* save_recommendations(recs, d): one transaction, committed at line 140. A call
\* that raises leaves nothing committed.
SaveRecommendations(recs, d) ==
    /\ nextId + Len(recs) - 1 <= MaxId
    /\ IF InsertsSucceed(recs)
       THEN /\ rows' = DeleteWhereDate(rows, d)
                       \cup {InsertedRow(recs, d, i, nextId) : i \in 1..Len(recs)}
            /\ nextId' = nextId + Len(recs)
       ELSE UNCHANGED <<rows, nextId>>
    /\ lastSave' = [called |-> TRUE, completed |-> InsertsSucceed(recs),
                    recs |-> recs, date |-> d, before |-> rows]
    /\ UNCHANGED NotDb

NextDb ==
    \E recs \in SeqsUpTo(RecUniverse, MaxSaveLen), d \in ReportDates :
        SaveRecommendations(recs, d)

RowsOfDate(table, d) == {r \in table : r.date = d}
RowsNotOfDate(table, d) == {r \in table : r.date /= d}

\* C9: after save_recommendations(recs, d) completes, the rows of date d are exactly
\* one row per element of recs, and the rows of every other date are the rows that
\* were there before.
C9_SaveReplacesDate ==
    lastSave.completed =>
        LET now == RowsOfDate(rows, lastSave.date)
            n == Len(lastSave.recs) IN
        /\ Cardinality(now) = n
        /\ \E f \in [1..n -> now] :
              /\ \A i, j \in 1..n : f[i] = f[j] => i = j
              /\ \A i \in 1..n :
                    /\ f[i].symbol = lastSave.recs[i].symbol
                    /\ f[i].total_score = lastSave.recs[i].total_score
        /\ RowsNotOfDate(rows, lastSave.date) = RowsNotOfDate(lastSave.before, lastSave.date)

\* C9 witness: a completed save of a non-empty list over a table that held rows of
\* the same date and rows of another date.
C9_Witness ==
    /\ lastSave.completed
    /\ lastSave.recs # <<>>
    /\ RowsOfDate(lastSave.before, lastSave.date) # {}
    /\ RowsNotOfDate(lastSave.before, lastSave.date) # {}

-----------------------------------------------------------------------------
(* stock_screener/screener.py: StockScreener.screen and StockScreener._match *)
(*                                                                           *)
(* A dict is a record of values (val) and the set of its keys (has): d.get(k) *)
(* is None exactly when k is not in has. Scores are in hundredths, the       *)
(* auction ratio in tenths; a string is a sequence of characters.            *)

MaxListLen == 3

NoneValue == "None"

Get(d, k, default) == IF k \in d.has THEN d.val[k] ELSE default

StockDefaults ==
    [symbol |-> <<>>, stock_name |-> <<>>, current_price |-> 0, total_score |-> 0,
     tech_score |-> 0, auction_score |-> 0, auction_ratio |-> 0, rsi |-> 0,
     market_cap_billion |-> 0, gap_type |-> NoneValue, confidence |-> NoneValue,
     market |-> NoneValue]

AllStockKeys == DOMAIN StockDefaults

StockUniverse ==
    {[has |-> AllStockKeys,
      val |-> [symbol |-> <<"6", "0", "0">>, stock_name |-> <<"A", "B">>,
               current_price |-> 8, total_score |-> 85, tech_score |-> 70,
               auction_score |-> 60, auction_ratio |-> 12, rsi |-> 50,
               market_cap_billion |-> 150, gap_type |-> "gap_up",
               confidence |-> "very_high", market |-> "main"]],
     [has |-> AllStockKeys,
      val |-> [symbol |-> <<"3", "0", "0">>, stock_name |-> <<"C", "D">>,
               current_price |-> 10, total_score |-> 70, tech_score |-> 60,
               auction_score |-> 50, auction_ratio |-> 5, rsi |-> 60,
               market_cap_billion |-> 80, gap_type |-> "flat",
               confidence |-> "high", market |-> "chinext"]],
     [has |-> {"symbol", "current_price"},
      val |-> [StockDefaults EXCEPT !.symbol = <<"0", "0", "2">>,
                                    !.current_price = 25]],
     [has |-> AllStockKeys \ {"stock_name"},
      val |-> [symbol |-> <<"0", "0", "6">>, stock_name |-> <<>>,
               current_price |-> 50, total_score |-> 85, tech_score |-> 55,
               auction_score |-> 40, auction_ratio |-> -6, rsi |-> 40,
               market_cap_billion |-> 250, gap_type |-> "gap_down",
               confidence |-> "medium", market |-> "sme"]]}

CondDefaults ==
    [price_min |-> 0, price_max |-> 0, total_score_min |-> 0, total_score_max |-> 0,
     tech_score_min |-> 0, tech_score_max |-> 0, auction_score_min |-> 0,
     auction_score_max |-> 0, auction_ratio_min |-> 0, auction_ratio_max |-> 0,
     rsi_min |-> 0, rsi_max |-> 0, market_cap_min |-> 0, market_cap_max |-> 0,
     gap_types |-> {}, confidence_levels |-> {}, markets |-> {}, keyword |-> <<>>]

\* The conditions the model screens with: none, the shapes of PRESET_TEMPLATES,
\* keywords with blanks around them, an empty list, and the remaining bounds.
CondUniverse ==
    {[has |-> {}, val |-> CondDefaults],
     [has |-> {"price_min", "price_max", "auction_ratio_min", "tech_score_min",
               "confidence_levels"},
      val |-> [CondDefaults EXCEPT !.price_min = 2, !.price_max = 10,
                                   !.auction_ratio_min = 5, !.tech_score_min = 55,
                                   !.confidence_levels = {"very_high", "high"}]],
     [has |-> {"total_score_min", "auction_ratio_min", "gap_types"},
      val |-> [CondDefaults EXCEPT !.total_score_min = 80, !.auction_ratio_min = 10,
                                   !.gap_types = {"gap_up"}]],
     [has |-> {"rsi_max", "auction_ratio_min", "auction_ratio_max", "total_score_min"},
      val |-> [CondDefaults EXCEPT !.rsi_max = 55, !.auction_ratio_min = -6,
                                   !.auction_ratio_max = 15, !.total_score_min = 50]],
     [has |-> {"market_cap_max", "markets", "total_score_min"},
      val |-> [CondDefaults EXCEPT !.market_cap_max = 250, !.total_score_min = 60,
                                   !.markets = {"chinext", "sme"}]],
     [has |-> {"keyword"},
      val |-> [CondDefaults EXCEPT !.keyword = <<" ", "0", "0", " ">>]],
     [has |-> {"keyword", "gap_types"},
      val |-> [CondDefaults EXCEPT !.keyword = <<" ", " ">>]],
     [has |-> {"price_min"},
      val |-> [CondDefaults EXCEPT !.price_min = 0]],
     [has |-> {"total_score_max", "tech_score_max", "auction_score_min",
               "auction_score_max", "rsi_min", "market_cap_min"},
      val |-> [CondDefaults EXCEPT !.total_score_max = 85, !.tech_score_max = 70,
                                   !.auction_score_min = 40, !.auction_score_max = 60,
                                   !.rsi_min = 40, !.market_cap_min = 80]]}

RECURSIVE Strip(_)
\* str.strip(): the blanks at both ends removed
Strip(str) ==
    IF str = <<>> THEN <<>>
    ELSE IF Head(str) = " " THEN Strip(Tail(str))
    ELSE IF str[Len(str)] = " " THEN Strip(SubSeq(str, 1, Len(str) - 1))
    ELSE str

\* Python's  sub in str
Contains(str, sub) ==
    \E i \in 0..(Len(str) - Len(sub)) : SubSeq(str, i + 1, i + Len(sub)) = sub

BoundFails_strict(c, v, minKey, maxKey) ==
    \/ minKey \in c.has /\ v <= c.val[minKey]
    \/ maxKey \in c.has /\ v >= c.val[maxKey]

\* _match, one pair of checks: a supplied minimum above v or a supplied maximum
\* below v makes _match return False
BoundFails(c, v, minKey, maxKey) ==
    \/ minKey \in c.has /\ v < c.val[minKey]
    \/ maxKey \in c.has /\ v > c.val[maxKey]

\* _match, one list check: a non-empty list that does not hold the stock's value
ListFails(c, listKey, v) ==
    LET allowed == Get(c, listKey, {}) IN allowed # {} /\ v \notin allowed

\* StockScreener._match
Match(stock, c) ==
    IF BoundFails(c, Get(stock, "current_price", 0), "price_min", "price_max")
    THEN FALSE
    ELSE IF BoundFails(c, Get(stock, "total_score", 0),
                       "total_score_min", "total_score_max")
    THEN FALSE
    ELSE IF BoundFails(c, Get(stock, "tech_score", 0),
                       "tech_score_min", "tech_score_max")
    THEN FALSE
    ELSE IF BoundFails(c, Get(stock, "auction_score", 0),
                       "auction_score_min", "auction_score_max")
    THEN FALSE
    ELSE IF BoundFails(c, Get(stock, "auction_ratio", 0),
                       "auction_ratio_min", "auction_ratio_max")
    THEN FALSE
    ELSE IF BoundFails(c, Get(stock, "rsi", 50), "rsi_min", "rsi_max")
    THEN FALSE
    ELSE IF BoundFails(c, Get(stock, "market_cap_billion", 0),
                       "market_cap_min", "market_cap_max")
    THEN FALSE
    ELSE IF ListFails(c, "gap_types", Get(stock, "gap_type", NoneValue))
    THEN FALSE
    ELSE IF ListFails(c, "confidence_levels", Get(stock, "confidence", NoneValue))
    THEN FALSE
    ELSE IF ListFails(c, "markets", Get(stock, "market", NoneValue))
    THEN FALSE
    ELSE LET keyword == Strip(Get(c, "keyword", <<>>)) IN
         IF keyword # <<>>
            /\ ~Contains(Get(stock, "symbol", <<>>), keyword)
            /\ ~Contains(Get(stock, "stock_name", <<>>), keyword)
         THEN FALSE
         ELSE TRUE

\* The sort key of line 97
ScoreKey(stock) == Get(stock, "total_score", 0)

RECURSIVE SortByScoreDescending(_)
\* list.sort(key=..., reverse=True): descending and stable, built by inserting the
\* last element behind the elements of the sorted rest that do not score lower
SortByScoreDescending(list) ==
    IF list = <<>> THEN <<>>
    ELSE LET rest == SortByScoreDescending(SubSeq(list, 1, Len(list) - 1))
             x == list[Len(list)]
             k == Cardinality({i \in 1..Len(rest) : ScoreKey(rest[i]) >= ScoreKey(x)})
         IN SubSeq(rest, 1, k) \o <<x>> \o SubSeq(rest, k + 1, Len(rest))

\* StockScreener.screen: the value it returns
ScreenResult(list, c) ==
    SortByScoreDescending(SelectSeq(list, LAMBDA stock : Match(stock, c)))

InitScreen ==
    /\ stock_list = <<>>
    /\ conditions = [has |-> {}, val |-> CondDefaults]
    /\ last_results = <<>>
    /\ screened = FALSE

\* The arguments of the call, drawn from the bounded sets
InitScreenInputs ==
    /\ stock_list \in SeqsUpTo(StockUniverse, MaxListLen)
    /\ conditions \in CondUniverse
    /\ last_results = <<>>
    /\ screened = FALSE

\* The call screen(stock_list, conditions)
Screen ==
    /\ last_results' = ScreenResult(stock_list, conditions)
    /\ screened' = TRUE
    /\ UNCHANGED <<stock_list, conditions>>
    /\ UNCHANGED NotScreen

NextScreen == Screen

\* How often x occurs in a list
Count(list, x) == Cardinality({i \in 1..Len(list) : list[i] = x})

\* The checks of a supplied bound, declaratively: the value lies on the right
\* side of each bound that is supplied
WithinBounds(c, v, minKey, maxKey) ==
    /\ minKey \in c.has => v >= c.val[minKey]
    /\ maxKey \in c.has => v <= c.val[maxKey]

\* A list condition is supplied when the list is there and not empty
InList(c, listKey, v) ==
    (listKey \in c.has /\ c.val[listKey] # {}) => v \in c.val[listKey]

\* Every supplied condition holds of the stock
Holds(stock, c) ==
    LET field(k, default) == IF k \in stock.has THEN stock.val[k] ELSE default
        kw == IF "keyword" \in c.has THEN Strip(c.val.keyword) ELSE <<>> IN
    /\ WithinBounds(c, field("current_price", 0), "price_min", "price_max")
    /\ WithinBounds(c, field("total_score", 0), "total_score_min", "total_score_max")
    /\ WithinBounds(c, field("tech_score", 0), "tech_score_min", "tech_score_max")
    /\ WithinBounds(c, field("auction_score", 0), "auction_score_min", "auction_score_max")
    /\ WithinBounds(c, field("auction_ratio", 0), "auction_ratio_min", "auction_ratio_max")
    /\ WithinBounds(c, field("rsi", 50), "rsi_min", "rsi_max")
    /\ WithinBounds(c, field("market_cap_billion", 0), "market_cap_min", "market_cap_max")
    /\ InList(c, "gap_types", field("gap_type", NoneValue))
    /\ InList(c, "confidence_levels", field("confidence", NoneValue))
    /\ InList(c, "markets", field("market", NoneValue))
    /\ kw # <<>> => \/ Contains(field("symbol", <<>>), kw)
                    \/ Contains(field("stock_name", <<>>), kw)

\* C10: screen returns exactly the elements of stock_list of which every supplied
\* condition holds, each as often as stock_list holds it, in the order of
\* non-increasing total_score; with no conditions it returns all of stock_list.
C10_ScreenFiltersAndSorts ==
    screened =>
        /\ \A s \in StockUniverse :
              Count(last_results, s) =
                  IF Holds(s, conditions) THEN Count(stock_list, s) ELSE 0
        /\ \A i \in 1..Len(last_results) : \E j \in 1..Len(stock_list) :
              last_results[i] = stock_list[j]
        /\ \A i, j \in 1..Len(last_results) :
              i < j => ScoreKey(last_results[i]) >= ScoreKey(last_results[j])
        /\ conditions.has = {} =>
              \A s \in StockUniverse : Count(last_results, s) = Count(stock_list, s)

\* C10 witness: a call with conditions that turned a stock away, kept at least
\* two, and returned them in another order than they came in.
C10_Witness ==
    /\ screened
    /\ conditions.has # {}
    /\ Len(last_results) >= 2
    /\ Len(last_results) < Len(stock_list)
    /\ last_results # SelectSeq(stock_list, LAMBDA s : Holds(s, conditions))

-----------------------------------------------------------------------------
(* POST /api/save_strategy_config and the strategy_* rows of system_config.
   Weights and the threshold are in hundredths, prices in whole units, the
   max_recommendations of the request in tenths (so that int() has something
   to truncate). *)

(* A value of the request's JSON object: a number, a string that is not a
   number, null, or a key that is absent. *)
JsonNum(n) == [kind |-> "num", n |-> n]
JsonMissing == [kind |-> "missing", n |-> 0]
JsonStr == [kind |-> "str", n |-> 0]
JsonNull == [kind |-> "null", n |-> 0]

TechWeightInputs == {JsonMissing, JsonNum(40), JsonNum(80), JsonNum(81), JsonStr}
AuctionWeightInputs ==
    {JsonMissing, JsonNum(20), JsonNum(21), JsonNum(60), JsonNum(61), JsonNull}
ScoreThresholdInputs == {JsonMissing, JsonNum(49), JsonNum(90), JsonNum(91)}
MaxRecommendationsInputs ==
    {JsonMissing, JsonNum(49), JsonNum(509), JsonNum(510), JsonStr}
MinPriceInputs == {JsonMissing, JsonNum(0), JsonNum(400)}
MaxPriceInputs == {JsonMissing, JsonNum(1000), JsonNum(1001)}
StrategyRequests ==
    [tech_weight : TechWeightInputs, auction_weight : AuctionWeightInputs,
     score_threshold : ScoreThresholdInputs,
     max_recommendations : MaxRecommendationsInputs,
     min_price : MinPriceInputs, max_price : MaxPriceInputs]

(* config.get(key, default) followed by float(): the exception it raises, or
   "none". *)
ConvertRaises(v) ==
    CASE v.kind = "str" -> "ValueError"
      [] v.kind = "null" -> "TypeError"
      [] OTHER -> "none"
FloatOf(v, default) == IF v.kind = "missing" THEN default ELSE v.n
(* int() of a number given in tenths truncates toward zero; the default 15
   is already an int. *)
IntOf(v, default) ==
    IF v.kind = "missing" THEN default
    ELSE IF v.n >= 0 THEN v.n \div 10 ELSE -((-v.n) \div 10)

Abs(x) == IF x < 0 THEN -x ELSE x

(* abs(tech_weight + auction_weight - 1.0) > 0.01.  In double arithmetic
   every pair of hundredths whose sum is 0.99 or 1.01 gives
   0.010000000000000009, which is greater than 0.01: on hundredths the test
   fails for every sum other than 1.00. *)
WeightSumOff_never(t, a) == FALSE
WeightSumOff(t, a) == Abs(t + a - 100) >= 1

StrategyKeys ==
    {"tech_weight", "auction_weight", "score_threshold", "max_recommendations",
     "min_price", "max_price"}
ConversionOrder ==
    <<"tech_weight", "auction_weight", "score_threshold", "max_recommendations",
      "min_price", "max_price">>
(* The conversions run in this order; the first that raises ends the try. *)
ParseRaises(req) ==
    LET raising == {i \in 1..Len(ConversionOrder) :
                        ConvertRaises(req[ConversionOrder[i]]) # "none"}
    IN  IF raising = {} THEN "none"
        ELSE LET i == CHOOSE i \in raising : \A j \in raising : i <= j
             IN  ConvertRaises(req[ConversionOrder[i]])
Parsed(req) ==
    [tech_weight |-> FloatOf(req.tech_weight, 65),
     auction_weight |-> FloatOf(req.auction_weight, 35),
     score_threshold |-> FloatOf(req.score_threshold, 65),
     max_recommendations |-> IntOf(req.max_recommendations, 15),
     min_price |-> FloatOf(req.min_price, 2),
     max_price |-> FloatOf(req.max_price, 300)]

(* The first validation that turns the parsed values away, "" when none. *)
ValidationMessage(c) ==
    IF ~(40 <= c.tech_weight /\ c.tech_weight <= 80) THEN "tech_weight"
    ELSE IF ~(20 <= c.auction_weight /\ c.auction_weight <= 60)
    THEN "auction_weight"
    ELSE IF WeightSumOff(c.tech_weight, c.auction_weight) THEN "weight_sum"
    ELSE IF ~(50 <= c.score_threshold /\ c.score_threshold <= 90)
    THEN "score_threshold"
    ELSE IF ~(5 <= c.max_recommendations /\ c.max_recommendations <= 50)
    THEN "max_recommendations"
    ELSE IF ~(1 <= c.min_price /\ c.min_price <= c.max_price
              /\ c.max_price <= 1000)
    THEN "price_range"
    ELSE ""

(* WebAppManager.save_strategy_config: INSERT OR REPLACE of one row per key
   of the dict, strategy_<key> -> str(value), then one commit.  The dict also
   has updated_at, the time of the save, which the model leaves at 0. *)
InsertOrReplace(table, key, value) ==
    {r \in table : r.config_key # key}
        \cup {[config_key |-> key, config_value |-> value]}
RECURSIVE InsertAll(_, _, _)
InsertAll(table, keys, c) ==
    IF keys = {} THEN table
    ELSE LET k == CHOOSE k \in keys : TRUE
         IN  InsertAll(InsertOrReplace(table, "strategy_" \o k, c[k]),
                       keys \ {k}, c)
SavedStrategyRows(table, c) ==
    InsertOrReplace(InsertAll(table, StrategyKeys, c), "strategy_updated_at", 0)

InitCfg ==
    /\ system_config = {}
    /\ lastCfg = [called |-> FALSE, acceptable |-> FALSE, success |-> FALSE,
                  changed |-> FALSE]

(* What the claim calls an input that may be stored: every value converts,
   and the converted values are inside the ranges. *)
InClaimedRanges(req) ==
    /\ \A k \in StrategyKeys : req[k].kind \in {"num", "missing"}
    /\ LET c == Parsed(req)
       IN  /\ 40 <= c.tech_weight /\ c.tech_weight <= 80
           /\ 20 <= c.auction_weight /\ c.auction_weight <= 60
           /\ Abs(c.tech_weight + c.auction_weight - 100) <= 1
           /\ 50 <= c.score_threshold /\ c.score_threshold <= 90
           /\ 5 <= c.max_recommendations /\ c.max_recommendations <= 50
           /\ 1 <= c.min_price /\ c.min_price <= c.max_price
           /\ c.max_price <= 1000

(* The route.  A conversion that raises, a validation that fails and a save
   that raises (no commit, so no row changes) all answer success=false. *)
SaveStrategyConfig(req, saveRaises) ==
    LET stores == /\ ParseRaises(req) = "none"
                  /\ ValidationMessage(Parsed(req)) = ""
                  /\ ~saveRaises
    IN  /\ system_config' = IF stores
                            THEN SavedStrategyRows(system_config, Parsed(req))
                            ELSE system_config
        /\ lastCfg' = [called |-> TRUE, acceptable |-> InClaimedRanges(req),
                       success |-> stores,
                       changed |-> system_config' # system_config]
        /\ UNCHANGED NotCfg

NextCfg == \E req \in StrategyRequests, saveRaises \in BOOLEAN :
               SaveStrategyConfig(req, saveRaises)

(* C11: the strategy_* rows change only on a request whose values are inside
   the claimed ranges; every other request is answered success=false and
   leaves the rows as they were. *)
C11_StoresOnlyValidConfig ==
    lastCfg.called =>
        /\ lastCfg.changed => lastCfg.acceptable
        /\ ~lastCfg.acceptable => ~lastCfg.success /\ ~lastCfg.changed
C11_Witness ==
    /\ lastCfg.called /\ ~lastCfg.acceptable /\ ~lastCfg.success
    /\ system_config # {} /\ ~lastCfg.changed

-----------------------------------------------------------------------------
(* WatchlistManager over the tables watchlist_groups and watchlist_stocks.
   A group row is [id, name], a stock row [id, group_id, symbol]; sort_order,
   the timestamps and the free-text columns take no part in any decision. *)
MaxGroups == 3               \* no group id beyond this one is handed out
MaxStocks == 2               \* no stock id beyond this one is handed out

HoldingName == "ChiYouGu"    \* the name of the holdings group, in pinyin
DefaultName == "MoRenZiXuan" \* the name of the default group, in pinyin
GroupNames == {HoldingName, DefaultName}
GroupIds == 1..MaxGroups
StockIds == 1..MaxStocks
WlSymbols == {"600000", "000001", NoSymbol}

(* INTEGER PRIMARY KEY without the AUTOINCREMENT keyword: SQLite hands out
   the largest id of the table plus one. *)
NextRowId(table) ==
    IF table = {} THEN 1
    ELSE 1 + (CHOOSE i \in {r.id : r \in table} :
                  \A r \in table : r.id <= i)

(* uq_watchlist_stocks_group_symbol *)
UniqueViolation_off(table, gid, symbol) == FALSE
UniqueViolation(table, gid, symbol) ==
    \E r \in table : r.group_id = gid /\ r.symbol = symbol
(* symbol is nullable=False.  The foreign key on group_id is declared, but
   the engine never switches SQLite's foreign_keys pragma on, so a group_id
   of no group is accepted. *)
IntegrityError(table, gid, symbol) ==
    symbol = NoSymbol \/ UniqueViolation(table, gid, symbol)

(* _ensure_default_groups *)
EnsureDefaultGroups(table) ==
    LET first == IF table = {}
                 THEN {[id |-> NextRowId(table), name |-> DefaultName]}
                 ELSE table
    IN  IF \E g \in first : g.name = HoldingName THEN first
        ELSE first \cup {[id |-> NextRowId(first), name |-> HoldingName]}

NoWlCall ==
    [op |-> "none", present |-> FALSE, result |-> "none", changed |-> FALSE]

(* lastWl after a call that is not add_stock *)
OtherWlCall == [NoWlCall EXCEPT !.op = "other"]

InitWl ==
    /\ watchlist_groups = EnsureDefaultGroups({})
    /\ watchlist_stocks = {}
    /\ lastWl = NoWlCall

add_group(name) ==
    /\ NextRowId(watchlist_groups) <= MaxGroups
    /\ watchlist_groups' = watchlist_groups
           \cup {[id |-> NextRowId(watchlist_groups), name |-> name]}
    /\ lastWl' = OtherWlCall
    /\ UNCHANGED <<watchlist_stocks, NotWl>>

rename_group(gid, name) ==
    /\ IF \E g \in watchlist_groups : g.id = gid
       THEN watchlist_groups' =
                {IF g.id = gid THEN [g EXCEPT !.name = name] ELSE g :
                     g \in watchlist_groups}
       ELSE UNCHANGED watchlist_groups
    /\ lastWl' = OtherWlCall
    /\ UNCHANGED <<watchlist_stocks, NotWl>>

(* session.delete(g) with cascade="all, delete-orphan": the ORM deletes the
   group's stocks with it. *)
delete_group(gid) ==
    LET found == {g \in watchlist_groups : g.id = gid}
    IN  IF found = {} \/ \E g \in found : g.name = HoldingName
        THEN /\ lastWl' = OtherWlCall
             /\ UNCHANGED <<watchlist_groups, watchlist_stocks, NotWl>>
        ELSE /\ watchlist_groups' = watchlist_groups \ found
             /\ watchlist_stocks' =
                    {s \in watchlist_stocks : s.group_id # gid}
             /\ lastWl' = OtherWlCall
             /\ UNCHANGED NotWl

add_stock(gid, symbol) ==
    LET present == \E s \in watchlist_stocks :
                       s.group_id = gid /\ s.symbol = symbol
    IN  IF IntegrityError(watchlist_stocks, gid, symbol)
        THEN /\ lastWl' = [op |-> "add_stock", present |-> present,
                           result |-> "duplicate", changed |-> FALSE]
             /\ UNCHANGED <<watchlist_groups, watchlist_stocks, NotWl>>
        ELSE /\ NextRowId(watchlist_stocks) <= MaxStocks
             /\ watchlist_stocks' = watchlist_stocks
                    \cup {[id |-> NextRowId(watchlist_stocks),
                           group_id |-> gid, symbol |-> symbol]}
             /\ lastWl' = [op |-> "add_stock", present |-> present,
                           result |-> "dict", changed |-> TRUE]
             /\ UNCHANGED <<watchlist_groups, NotWl>>

remove_stock(sid) ==
    /\ watchlist_stocks' = {s \in watchlist_stocks : s.id # sid}
    /\ lastWl' = OtherWlCall
    /\ UNCHANGED <<watchlist_groups, NotWl>>

remove_stock_by_symbol(gid, symbol) ==
    LET hit == {s \in watchlist_stocks :
                    s.group_id = gid /\ s.symbol = symbol}
    IN  /\ watchlist_stocks' = watchlist_stocks \ hit
        /\ lastWl' = OtherWlCall
        /\ UNCHANGED <<watchlist_groups, NotWl>>

NextWl ==
    \/ \E name \in GroupNames : add_group(name)
    \/ \E gid \in GroupIds, name \in GroupNames : rename_group(gid, name)
    \/ \E gid \in GroupIds : delete_group(gid)
    \/ \E gid \in GroupIds, symbol \in WlSymbols : add_stock(gid, symbol)
    \/ \E sid \in StockIds : remove_stock(sid)
    \/ \E gid \in GroupIds, symbol \in WlSymbols :
           remove_stock_by_symbol(gid, symbol)

(* C12: add_stock for a (group_id, symbol) pair the group already holds
   answers the duplicate error and changes no stock row, and no group ever
   holds two stocks with the same symbol. *)
C12_NoDuplicateSymbolInGroup ==
    /\ lastWl.op = "add_stock" /\ lastWl.present =>
           lastWl.result = "duplicate" /\ ~lastWl.changed
    /\ \A s1, s2 \in watchlist_stocks :
           s1.group_id = s2.group_id /\ s1.symbol = s2.symbol => s1 = s2
C12_Witness ==
    /\ lastWl.op = "add_stock" /\ lastWl.present
    /\ Cardinality(watchlist_stocks) >= 2

(* C13: a group with the holdings name exists in every state after the
   manager's construction, whatever add_group, rename_group and delete_group
   calls were made. *)
C13_HoldingGroupExists ==
    \E g \in watchlist_groups : g.name = HoldingName

-----------------------------------------------------------------------------
(* StockAnalysisEngine: the module-level engine of backend/app.py, shared by
   every /api/analyzer/analyze request.  Scores are in tenths of a point,
   weights in hundredths. *)
NumRequests == 2             \* requests that may be inside analyze at once

Requests == 1..NumRequests

(* self._rules after load_rules: the six rules of rules/, in one listing
   order (the mean does not depend on the order). *)
LoadedRules ==
    <<"technical", "fundamental", "sentiment", "sector_tech",
      "sector_consumer", "sector_finance">>
RuleIds == {LoadedRules[i] : i \in 1..Len(LoadedRules)}
weight(rule) ==
    CASE rule \in {"technical", "fundamental"} -> 40
      [] rule = "sentiment" -> 20
      [] OTHER -> 0

(* What rule.evaluate(ctx) may do: return a score, which every rule of rules/
   clamps with max(0, min(100, score)), or raise. *)
Raised == [raises |-> TRUE, score |-> 0]
Returned(s) == [raises |-> FALSE, score |-> s]
EvaluateOutcomes(rule) ==
    CASE rule = "technical" -> {Returned(0), Returned(1000), Raised}
      [] rule = "fundamental" -> {Returned(500), Raised}
      [] rule = "sentiment" -> {Returned(0), Returned(667)}
      [] rule = "sector_tech" -> {Returned(850), Raised}
      [] OTHER -> {Returned(500)}

(* The rule_ids argument: None, or a list (which may be empty, repeat an id,
   or name a rule that is not loaded). *)
RuleIdsNone == [given |-> FALSE, ids |-> <<>>]
RuleIdsList(l) == [given |-> TRUE, ids |-> l]
RuleIdsArgs ==
    {RuleIdsNone, RuleIdsList(<<>>),
     RuleIdsList(<<"technical", "sector_tech">>),
     RuleIdsList(<<"fundamental", "fundamental", "sentiment", "no_such_rule">>)}

(* _get_effective_rules *)
get_effective_rules(active) ==
    IF active.given
    THEN SelectSeq(active.ids, LAMBDA rid : rid \in RuleIds)
    ELSE LoadedRules

(* One turn of the loop over the rules (lines 321-340). *)
RunRule_countsRaised(acc, rule, o) ==
    [weighted_sum |-> acc.weighted_sum
                        + (IF o.raises THEN 500 ELSE o.score) * weight(rule),
     weight_total |-> acc.weight_total + weight(rule),
     rule_results |-> (rule :> (IF o.raises THEN 500 ELSE o.score))
                          @@ acc.rule_results]
RunRule(acc, rule, o) ==
    IF o.raises
    THEN [acc EXCEPT !.rule_results = (rule :> 500) @@ acc.rule_results]
    ELSE [weighted_sum |-> IF weight(rule) > 0
                           THEN acc.weighted_sum + o.score * weight(rule)
                           ELSE acc.weighted_sum,
          weight_total |-> IF weight(rule) > 0
                           THEN acc.weight_total + weight(rule)
                           ELSE acc.weight_total,
          rule_results |-> (rule :> o.score) @@ acc.rule_results]
RECURSIVE RunRules(_, _, _, _)
RunRules(rules, out, i, acc) ==
    IF i > Len(rules) THEN acc
    ELSE RunRules(rules, out, i + 1, RunRule(acc, rules[i], out[rules[i]]))

(* round(x, n) of x >= 0, as the integer nearest to num / den, where den is
   what one unit of the n-th decimal is worth in num's units; a tie goes to the
   even one.  Here num / den is the score in tenths. *)
RoundHalfEven(num, den) ==
    LET q == num \div den
        r == num % den
    IN  IF 2 * r > den \/ (2 * r = den /\ q % 2 = 1) THEN q + 1 ELSE q

NoReportYet ==
    [done |-> FALSE, error |-> FALSE, given |-> FALSE, active_rules |-> <<>>,
     out |-> <<>>, rule_results |-> <<>>, comprehensive |-> [num |-> 0, den |-> 1],
     comprehensive_score |-> 0]

InitEngine ==
    /\ active_rule_ids = RuleIdsNone
    /\ analyzing = [t \in Requests |-> [pc |-> "idle", given |-> FALSE]]
    /\ lastReport = NoReportYet

(* analyze, lines 287-288: "if rule_ids: self.set_active_rules(rule_ids)".
   An empty list is falsy. *)
AnalyzeBegin(t, rule_ids) ==
    /\ analyzing[t].pc = "idle"
    /\ active_rule_ids' = IF rule_ids.given /\ rule_ids.ids # <<>>
                          THEN rule_ids ELSE active_rule_ids
    /\ analyzing' = [analyzing EXCEPT
                         ![t] = [pc |-> "fetch", given |-> rule_ids.given]]
    /\ UNCHANGED <<lastReport, NotEngine>>

(* analyze, lines 290-299: no price data ends in _empty_report. *)
AnalyzeNoData(t) ==
    /\ analyzing[t].pc = "fetch"
    /\ lastReport' = [NoReportYet EXCEPT !.done = TRUE, !.error = TRUE,
                                         !.given = analyzing[t].given]
    /\ analyzing' = [analyzing EXCEPT ![t] = [pc |-> "idle", given |-> FALSE]]
    /\ UNCHANGED <<active_rule_ids, NotEngine>>

(* analyze, lines 301-376: the rules are read from self._active_rule_ids as
   it is now, run one by one, and the report is built. *)
AnalyzeRun(t, out) ==
    /\ analyzing[t].pc = "fetch"
    /\ LET rules == get_effective_rules(active_rule_ids)
           acc == RunRules(rules, out, 1,
                           [weighted_sum |-> 0, weight_total |-> 0,
                            rule_results |-> <<>>])
           comprehensive ==
               IF acc.weight_total > 0
               THEN [num |-> acc.weighted_sum, den |-> acc.weight_total]
               ELSE [num |-> 500, den |-> 1]
       IN  lastReport' =
               [done |-> TRUE, error |-> FALSE, given |-> analyzing[t].given,
                active_rules |-> rules,
                out |-> [r \in {rules[i] : i \in 1..Len(rules)} |-> out[r]],
                rule_results |-> acc.rule_results,
                comprehensive |-> comprehensive,
                comprehensive_score |->
                    RoundHalfEven(comprehensive.num, comprehensive.den)]
    /\ analyzing' = [analyzing EXCEPT ![t] = [pc |-> "idle", given |-> FALSE]]
    /\ UNCHANGED <<active_rule_ids, NotEngine>>

(* One outcome for each loaded rule. *)
RuleOutcomes ==
    {[r \in RuleIds |->
          CASE r = "technical" -> t
            [] r = "fundamental" -> f
            [] r = "sentiment" -> s
            [] r = "sector_tech" -> st
            [] OTHER -> Returned(500)] :
        t \in EvaluateOutcomes("technical"),
        f \in EvaluateOutcomes("fundamental"),
        s \in EvaluateOutcomes("sentiment"),
        st \in EvaluateOutcomes("sector_tech")}

NextEngine ==
    \/ \E t \in Requests, rule_ids \in RuleIdsArgs : AnalyzeBegin(t, rule_ids)
    \/ \E t \in Requests : AnalyzeNoData(t)
    \/ \E t \in Requests, out \in RuleOutcomes : AnalyzeRun(t, out)

(* C14: a call without rule_ids evaluates all loaded rules, whatever rule_ids
   earlier calls passed. *)
C14_RuleIdsForOneCallOnly ==
    lastReport.done /\ ~lastReport.error /\ ~lastReport.given =>
        lastReport.active_rules = LoadedRules

(* The positions of the active rules that have weight > 0 and evaluated
   without raising, and the sums of the weighted mean over them. *)
Counted(rep) ==
    {i \in 1..Len(rep.active_rules) :
         /\ weight(rep.active_rules[i]) > 0
         /\ ~rep.out[rep.active_rules[i]].raises}
RECURSIVE SumOver(_, _, _)
SumOver(idx, rep, withScore) ==
    IF idx = {} THEN 0
    ELSE LET i == CHOOSE i \in idx : TRUE
             r == rep.active_rules[i]
         IN  (IF withScore THEN rep.out[r].score * weight(r) ELSE weight(r))
                 + SumOver(idx \ {i}, rep, withScore)

(* C18: the comprehensive score is the weight-weighted mean of the scores of
   the active rules with weight > 0 that did not raise, 50.0 when there is no
   such rule, and within [0, 100]; a rule that raises is reported with score
   50 and is not in the mean. *)
C18_ComprehensiveIsWeightedMean ==
    lastReport.done /\ ~lastReport.error =>
        LET idx == Counted(lastReport)
            c == lastReport.comprehensive
        IN  /\ idx = {} => c.num = 500 * c.den
            /\ idx # {} =>
                   c.num * SumOver(idx, lastReport, FALSE)
                       = c.den * SumOver(idx, lastReport, TRUE)
            /\ 0 <= c.num /\ c.num <= 1000 * c.den
            /\ 0 <= lastReport.comprehensive_score
            /\ lastReport.comprehensive_score <= 1000
            /\ \A r \in DOMAIN lastReport.out :
                   lastReport.out[r].raises => lastReport.rule_results[r] = 500
C18_Witness ==
    /\ lastReport.done /\ ~lastReport.error
    /\ Cardinality(Counted(lastReport)) >= 2
    /\ \E r \in DOMAIN lastReport.out :
           lastReport.out[r].raises /\ weight(r) > 0
    /\ lastReport.comprehensive.num # 500 * lastReport.comprehensive.den

-----------------------------------------------------------------------------
(* OptimizedStockAnalyzer.generate_optimized_recommendations.  Scores and the
   threshold are in thousandths, weights in hundredths.  Inside the simulated
   fallback the scores are in units of 0.000005 ("fine" units, 200 to the
   thousandth), so that adjustment / 2 stays an integer; a weighted total is
   then in units of 0.00000005, 20000 to the thousandth. *)
MaxPool == 3                 \* stocks of the pool that one call goes through

(* get_strategy_config: the stored strategy_score_threshold, 0 for no row;
   0.45 without a row, and 0.55 in place of anything above 0.7. *)
StoredThresholds == {0, 500, 700, 900}
get_strategy_config(stored) ==
    LET threshold == IF stored = 0 THEN 450 ELSE stored
    IN  [tech_weight |-> 65, auction_weight |-> 35,
         score_threshold |-> IF threshold > 700 THEN 550 ELSE threshold,
         max_recommendations |-> 15]

Fine(score) == 200 * score
Weighted(techFine, strengthFine, config) ==
    techFine * config.tech_weight + strengthFine * config.auction_weight
Min(a, b) == IF a < b THEN a ELSE b

(* _analyze_with_real_data: None (no data, price out of range, an exception,
   or a total below the threshold), else the result with the rounded total. *)
analyze_with_real_data(real, config) ==
    LET total == Weighted(Fine(real.tech_score), Fine(real.strength), config)
    IN  IF real.available /\ total >= 20000 * config.score_threshold
        THEN [found |-> TRUE, total_score |-> RoundHalfEven(total, 20000),
              source |-> "real"]
        ELSE [found |-> FALSE, total_score |-> 0, source |-> "real"]

(* _analyze_with_simulated_data, lines 289-308, on the drawn tech_score and
   auction strength. *)
AdjustedTotal(tech_score, strength, config) ==
    LET total == Weighted(Fine(tech_score), Fine(strength), config)
        \* adjustment / 2 = (score_threshold - total_score + 0.05) / 2, in
        \* fine units (total is a multiple of 200)
        adjustmentHalf ==
            100 * config.score_threshold - total \div 200 + 5000
        tech2 == Min(Fine(950), Fine(tech_score) + adjustmentHalf)
        strength2 == Min(Fine(950), Fine(strength) + adjustmentHalf)
    IN  Weighted(tech2, strength2, config)
analyze_with_simulated_data(sim, config) ==
    LET total == Weighted(Fine(sim.tech_score), Fine(sim.strength), config)
        final == IF total < 20000 * config.score_threshold
                 THEN AdjustedTotal(sim.tech_score, sim.strength, config)
                 ELSE total
    IN  [found |-> TRUE, total_score |-> RoundHalfEven(final, 20000),
         source |-> "simulated"]

(* analyze_stock_with_fallback *)
analyze_stock_with_fallback(real, sim, config) ==
    IF analyze_with_real_data(real, config).found
    THEN analyze_with_real_data(real, config)
    ELSE analyze_with_simulated_data(sim, config)

(* What the data sources and the random draws give for one stock. *)
DeepResults == {0, 400, 800}             \* total_score, 0 for no report
RealData ==
    {[available |-> FALSE, tech_score |-> 0, strength |-> 0],
     [available |-> TRUE, tech_score |-> 400, strength |-> 300],
     [available |-> TRUE, tech_score |-> 1000, strength |-> 900]}
SimulatedDraws ==
    [tech_score : {300, 600, 900}, strength : {450, 950}]

(* recommendations.sort(key=total_score, reverse=True): stable. *)
RECURSIVE InsertByScore(_, _)
InsertByScore(sorted, r) ==
    IF sorted = <<>> THEN <<r>>
    ELSE IF Head(sorted).total_score >= r.total_score
    THEN <<Head(sorted)>> \o InsertByScore(Tail(sorted), r)
    ELSE <<r>> \o sorted
RECURSIVE SortRecommendations(_)
SortRecommendations(recs) ==
    IF recs = <<>> THEN <<>>
    ELSE InsertByScore(SortRecommendations(SubSeq(recs, 1, Len(recs) - 1)),
                       recs[Len(recs)])

InitOpt ==
    /\ opt = [pc |-> "idle", config |-> get_strategy_config(0),
              use_deep_analysis |-> FALSE, analysis_count |-> 0]
    /\ recommendations = <<>>
    /\ final_recommendations = <<>>

(* Lines 541-561. *)
OptStart(stored, deep) ==
    /\ opt.pc \in {"idle", "done"}
    /\ opt' = [pc |-> "loop", config |-> get_strategy_config(stored),
               use_deep_analysis |-> deep, analysis_count |-> 0]
    /\ recommendations' = <<>>
    /\ final_recommendations' = <<>>
    /\ UNCHANGED NotOpt

(* One turn of the loop over the pool, lines 563-597. *)
OptStock(risky, deep, real, sim) ==
    /\ opt.pc = "loop"
    /\ opt.analysis_count < MaxPool
    /\ Len(recommendations) < 2 * opt.config.max_recommendations
    /\ opt' = [opt EXCEPT !.analysis_count = @ + 1]
    /\ recommendations' =
           IF risky THEN recommendations
           ELSE IF /\ opt.use_deep_analysis /\ Len(recommendations) < 3
                   /\ deep # 0 /\ deep >= opt.config.score_threshold
           THEN Append(recommendations,
                       [total_score |-> deep, source |-> "deep"])
           ELSE LET result == analyze_stock_with_fallback(real, sim, opt.config)
                IN  Append(recommendations,
                           [total_score |-> result.total_score,
                            source |-> result.source])
    /\ UNCHANGED <<final_recommendations, NotOpt>>

(* Lines 599-602, after the pool is exhausted or the loop has broken off. *)
OptFinish ==
    /\ opt.pc = "loop"
    /\ final_recommendations' =
           SubSeq(SortRecommendations(recommendations), 1,
                  Min(Len(recommendations), opt.config.max_recommendations))
    /\ opt' = [opt EXCEPT !.pc = "done"]
    /\ UNCHANGED <<recommendations, NotOpt>>

NextOpt ==
    \/ \E stored \in StoredThresholds, deep \in BOOLEAN : OptStart(stored, deep)
    \/ \E risky \in BOOLEAN, deep \in DeepResults, real \in RealData,
          sim \in SimulatedDraws : OptStock(risky, deep, real, sim)
    \/ OptFinish

(* C15: every returned recommendation has total_score >= the configured
   score_threshold, the ones of the simulated fallback included. *)
C15_RecommendationsReachThreshold ==
    opt.pc = "done" =>
        \A i \in 1..Len(final_recommendations) :
            final_recommendations[i].total_score >= opt.config.score_threshold

-----------------------------------------------------------------------------
(* DeepStockAnalyzer.calculate_comprehensive_scores and its three scores, in
   hundredths; the returned scores are rounded to three decimals and are in
   thousandths.  Each score function adds its increments one after the other
   inside one try: a lookup or comparison that raises keeps the score reached
   so far.  raisesAt is the increment at which that happens, 0 for never.
   The function keeps nothing between calls: the model follows one call. *)

CapScore_none(score) == score
CapScore(score) == Min(100, score)                  \* min(1.0, score)

RECURSIVE SumPrefix(_, _)
SumPrefix(increments, n) ==
    IF n = 0 THEN 0 ELSE SumPrefix(increments, n - 1) + increments[n]
ScoreOf(increments, raisesAt) ==
    CapScore(50 + SumPrefix(increments,
                            IF raisesAt = 0 THEN Len(increments)
                            ELSE raisesAt - 1))

(* _calculate_technical_score.  macd_signal and ma_trend are strings: "buy"
   stands for the two MACD values worth 0.2, "bull" for the aligned moving
   averages, "short_up" for the short-term rise. *)
TechnicalInputs ==
    [rsi_14 : {50, 25, 90}, macd_signal : {"buy", "neutral", "other"},
     ma_trend : {"bull", "short_up", "other"},
     bollinger_position : {50, 90},              \* in hundredths
     price_change_pct : {3, 0, -5}, raisesAt : 0..5]
calculate_technical_score(in) ==
    ScoreOf(<<IF 30 <= in.rsi_14 /\ in.rsi_14 <= 70 THEN 15
              ELSE IF 20 <= in.rsi_14 /\ in.rsi_14 <= 80 THEN 10 ELSE 0,
              IF in.macd_signal = "buy" THEN 20
              ELSE IF in.macd_signal = "neutral" THEN 10 ELSE 0,
              IF in.ma_trend = "bull" THEN 15
              ELSE IF in.ma_trend = "short_up" THEN 10 ELSE 0,
              IF 20 <= in.bollinger_position /\ in.bollinger_position <= 80
              THEN 10 ELSE 0,
              IF 0 < in.price_change_pct /\ in.price_change_pct <= 5 THEN 10
              ELSE IF -2 <= in.price_change_pct /\ in.price_change_pct <= 0
              THEN 5 ELSE 0>>,
            in.raisesAt)

(* _calculate_fundamental_score *)
FundamentalInputs ==
    [pe_ratio : {15, 30, 50}, roe : {20, 12, 5},
     growth : {<<12, 20>>, <<6, 12>>, <<1, 1>>, <<-1, 5>>},
     debt_ratio : {30, 50, 70}, raisesAt : 0..4]
calculate_fundamental_score(in) ==
    LET revenue_growth == in.growth[1]
        profit_growth == in.growth[2]
    IN  ScoreOf(<<IF 10 <= in.pe_ratio /\ in.pe_ratio <= 25 THEN 15
                  ELSE IF 8 <= in.pe_ratio /\ in.pe_ratio <= 35 THEN 10 ELSE 0,
                  IF in.roe >= 15 THEN 15 ELSE IF in.roe >= 10 THEN 10 ELSE 0,
                  IF revenue_growth > 10 /\ profit_growth > 15 THEN 20
                  ELSE IF revenue_growth > 5 /\ profit_growth > 10 THEN 15
                  ELSE IF revenue_growth > 0 /\ profit_growth > 0 THEN 10
                  ELSE 0,
                  IF in.debt_ratio <= 40 THEN 10
                  ELSE IF in.debt_ratio <= 60 THEN 5 ELSE 0>>,
                in.raisesAt)

(* _calculate_sentiment_score; auction_ratio is in tenths. *)
SentimentInputs ==
    [inflow_ratio : {6, 3, 1, -1}, main_control_ratio : {60, 50, 30},
     auction_ratio : {20, 5, -5, -20}, raisesAt : 0..3]
calculate_sentiment_score(in) ==
    ScoreOf(<<IF in.inflow_ratio > 5 THEN 20
              ELSE IF in.inflow_ratio > 2 THEN 15
              ELSE IF in.inflow_ratio > 0 THEN 10 ELSE 0,
              IF in.main_control_ratio >= 60 THEN 15
              ELSE IF in.main_control_ratio >= 45 THEN 10 ELSE 0,
              IF in.auction_ratio > 10 THEN 15
              ELSE IF in.auction_ratio > 0 THEN 10
              ELSE IF in.auction_ratio > -10 THEN 5 ELSE 0>>,
            in.raisesAt)

NoScores ==
    [returned |-> FALSE, technical_score |-> 0, fundamental_score |-> 0,
     sentiment_score |-> 0, total_score |-> 0]

InitDeep ==
    /\ scoring = [pc |-> "start", tech_score |-> 0, fundamental_score |-> 0,
               sentiment_score |-> 0]
    /\ deepScores = NoScores

(* calculate_comprehensive_scores, line 824 *)
DeepTechnical(in) ==
    /\ scoring.pc = "start"
    /\ scoring' = [pc |-> "technical", tech_score |-> calculate_technical_score(in),
                fundamental_score |-> 0, sentiment_score |-> 0]
    /\ deepScores' = NoScores
    /\ UNCHANGED NotDeep
(* line 827 *)
DeepFundamental(in) ==
    /\ scoring.pc = "technical"
    /\ scoring' = [scoring EXCEPT !.pc = "fundamental",
                            !.fundamental_score =
                                calculate_fundamental_score(in)]
    /\ UNCHANGED <<deepScores, NotDeep>>
(* line 830 *)
DeepSentiment(in) ==
    /\ scoring.pc = "fundamental"
    /\ scoring' = [scoring EXCEPT !.pc = "sentiment",
                            !.sentiment_score = calculate_sentiment_score(in)]
    /\ UNCHANGED <<deepScores, NotDeep>>
(* lines 833-840: the weighted total and the rounded dict *)
DeepReturn ==
    /\ scoring.pc = "sentiment"
    /\ LET total_score == scoring.tech_score * 40 + scoring.fundamental_score * 35
                              + scoring.sentiment_score * 25
       IN  deepScores' =
               [returned |-> TRUE,
                technical_score |-> RoundHalfEven(10 * scoring.tech_score, 1),
                fundamental_score |->
                    RoundHalfEven(10 * scoring.fundamental_score, 1),
                sentiment_score |-> RoundHalfEven(10 * scoring.sentiment_score, 1),
                total_score |-> RoundHalfEven(total_score, 10)]
    /\ scoring' = [scoring EXCEPT !.pc = "done"]
    /\ UNCHANGED NotDeep
(* lines 842-849: a key of data that is missing ends in the fixed scores *)
DeepExcept ==
    /\ scoring.pc \in {"start", "technical", "fundamental"}
    /\ deepScores' = [returned |-> TRUE, technical_score |-> 600,
                      fundamental_score |-> 600, sentiment_score |-> 600,
                      total_score |-> 600]
    /\ scoring' = [scoring EXCEPT !.pc = "done"]
    /\ UNCHANGED NotDeep

NextDeep ==
    \/ \E in \in TechnicalInputs : DeepTechnical(in)
    \/ \E in \in FundamentalInputs : DeepFundamental(in)
    \/ \E in \in SentimentInputs : DeepSentiment(in)
    \/ DeepReturn
    \/ DeepExcept

(* C16: the technical, fundamental and sentiment scores, while they are
   computed and as returned, and the weighted total
   0.4 * technical + 0.35 * fundamental + 0.25 * sentiment lie in [0, 1]. *)
C16_DeepScoresInUnitInterval ==
    /\ \A s \in {scoring.tech_score, scoring.fundamental_score,
                 scoring.sentiment_score} : 0 <= s /\ s <= 100
    /\ \A s \in {deepScores.technical_score, deepScores.fundamental_score,
                 deepScores.sentiment_score, deepScores.total_score} :
           0 <= s /\ s <= 1000
C16_Witness ==
    /\ deepScores.returned
    /\ deepScores.technical_score = 1000
    /\ deepScores.total_score > 900
    /\ deepScores.sentiment_score < 1000

-----------------------------------------------------------------------------
(* DailyReportGenerator.analyze_single_stock.  Scores are in hundredths, the
   weighted total in ten-thousandths, the returned total_score (rounded to
   three decimals) in thousandths; the auction ratio, a percentage, is in
   thousandths of a percent before round(ratio, 2) and in hundredths after.
   The method keeps nothing between calls: the model follows one call. *)

(* _calculate_tech_indicators on what the frame gives: how the close stands
   to its moving averages ("all": close > ma5 > ma10 > ma20, "short":
   close > ma5 > ma10 only), the RSI, the volume ratio in tenths. *)
TechIndicatorInputs ==
    [ma : {"all", "short", "none"}, rsi : {50, 80}, vol_ratio : {10, 5},
     raisesAt : 0..3]
calculate_tech_indicators(in) ==
    ScoreOf(<<IF in.ma = "all" THEN 25 ELSE IF in.ma = "short" THEN 15 ELSE 0,
              IF 30 <= in.rsi /\ in.rsi <= 70 THEN 15 ELSE 0,
              IF in.vol_ratio > 8 THEN 10 ELSE 0>>,
            in.raisesAt)

(* get_auction_data_quick's dict, with the ratio of final_price to prev_close
   in place of the two prices. *)
AuctionInputs ==
    [success : BOOLEAN,
     ratio : {-4000, -2000, 0, 504, 506, 2000, 3000, 3004},
     total_volume : {0, 1000}, data_points : {3, 8}]
Max(a, b) == IF a > b THEN a ELSE b
analyze_auction_signals(in) ==
    IF ~in.success
    THEN [strength |-> 30, ratio |-> 0, gap_type |-> "no_data"]
    ELSE [strength |->
              Max(0, Min(100,
                  50 + (IF 500 <= in.ratio /\ in.ratio <= 3000 THEN 30
                        ELSE IF in.ratio > 3000 THEN -10 ELSE 0)
                     + (IF in.total_volume > 0 THEN 10 ELSE 0)
                     + (IF in.data_points >= 8 THEN 10 ELSE 0))),
          ratio |-> RoundHalfEven(in.ratio, 10),
          gap_type |-> IF in.ratio > 3000 THEN "high_gap_up"
                       ELSE IF in.ratio > 1000 THEN "gap_up"
                       ELSE IF in.ratio > -1000 THEN "flat"
                       ELSE IF in.ratio > -3000 THEN "gap_down"
                       ELSE "low_gap_down"]

(* Lines 135-139: the weighted total and the auction bonus. *)
TotalScore(tech_score, auction_score) ==
    tech_score * 65 + auction_score.strength * 35
        + (IF auction_score.ratio > 50 /\ auction_score.strength > 60
           THEN 1000 ELSE 0)

NoResult == [returned |-> FALSE, none |-> TRUE, total_score |-> 0]
NoAuctionScore == [strength |-> 0, ratio |-> 0, gap_type |-> ""]

InitReport ==
    /\ analysis = [pc |-> "start", tech_score |-> 0,
                   auction_score |-> NoAuctionScore]
    /\ stockResult = NoResult

(* Lines 116-128: too little history or a price outside [2, 300] returns
   None; otherwise the technical score is computed. *)
ReportTech(enough, priceInRange, in) ==
    /\ analysis.pc = "start"
    /\ IF enough /\ priceInRange
       THEN /\ analysis' = [analysis EXCEPT
                                !.pc = "tech",
                                !.tech_score = calculate_tech_indicators(in)]
            /\ UNCHANGED stockResult
       ELSE /\ analysis' = [analysis EXCEPT !.pc = "done"]
            /\ stockResult' = [NoResult EXCEPT !.returned = TRUE]
    /\ UNCHANGED NotReport
(* Lines 131-132 *)
ReportAuction(in) ==
    /\ analysis.pc = "tech"
    /\ analysis' = [analysis EXCEPT
                        !.pc = "auction",
                        !.auction_score = analyze_auction_signals(in)]
    /\ UNCHANGED <<stockResult, NotReport>>
(* Lines 135-163 *)
ReportReturn ==
    /\ analysis.pc = "auction"
    /\ LET total_score == TotalScore(analysis.tech_score, analysis.auction_score)
       IN  stockResult' =
               IF total_score < 6500 THEN [NoResult EXCEPT !.returned = TRUE]
               ELSE [returned |-> TRUE, none |-> FALSE,
                     total_score |-> RoundHalfEven(total_score, 10)]
    /\ analysis' = [analysis EXCEPT !.pc = "done"]
    /\ UNCHANGED NotReport
(* Lines 165-166: any exception returns None *)
ReportExcept ==
    /\ analysis.pc \in {"start", "tech", "auction"}
    /\ stockResult' = [NoResult EXCEPT !.returned = TRUE]
    /\ analysis' = [analysis EXCEPT !.pc = "done"]
    /\ UNCHANGED NotReport

NextReport ==
    \/ \E enough \in BOOLEAN, priceInRange \in BOOLEAN,
          in \in TechIndicatorInputs : ReportTech(enough, priceInRange, in)
    \/ \E in \in AuctionInputs : ReportAuction(in)
    \/ ReportReturn
    \/ ReportExcept

(* C17: every total_score that analyze_single_stock returns lies in
   [0, 1]. *)
C17_TotalScoreInUnitInterval ==
    stockResult.returned /\ ~stockResult.none =>
        0 <= stockResult.total_score /\ stockResult.total_score <= 1000

-----------------------------------------------------------------------------
Init == InitSched /\ InitApp /\ InitApi /\ InitRun /\ InitDb /\ InitScreen
    /\ InitCfg
    /\ InitWl
    /\ InitEngine
    /\ InitOpt
    /\ InitDeep
    /\ InitReport
SpecSched == Init /\ [][NextSched]_vars
SpecApp == Init /\ [][NextApp]_vars
SpecApi == Init /\ [][NextApi]_vars
SpecRun == Init /\ [][NextRun]_vars
SpecDb == Init /\ [][NextDb]_vars
InitForScreen ==
    InitSched /\ InitApp /\ InitApi /\ InitRun /\ InitDb /\ InitScreenInputs
    /\ InitCfg
    /\ InitWl
    /\ InitEngine
    /\ InitOpt
    /\ InitDeep
    /\ InitReport
SpecScreen == InitForScreen /\ [][NextScreen]_vars
SpecCfg == Init /\ [][NextCfg]_vars
SpecWl == Init /\ [][NextWl]_vars
SpecEngine == Init /\ [][NextEngine]_vars
SpecOpt == Init /\ [][NextOpt]_vars
SpecDeep == Init /\ [][NextDeep]_vars
SpecReport == Init /\ [][NextReport]_vars
====
